---------------------------- MODULE Spec2Model ----------------------------
(***************************************************************************)
(* A model of tcmb-py, a client library for the EVDS web service of the    *)
(* Turkish Central Bank: URL building (fetch.py), response classification  *)
(* and key validation (auth.py), date normalisation (utils.py) and the     *)
(* Client facade with its memoized metadata properties (core.py).          *)
(*                                                                         *)
(* Python values are tagged records (PyNone / PyStr / PyInt); a Python str *)
(* is a sequence of symbols, a symbol being one character or one chunk of  *)
(* characters that holds none of the separators the code looks at.         *)
(***************************************************************************)
EXTENDS Integers, Sequences, FiniteSets, TLC

VARIABLES env, client, last

vars == <<env, client, last>>

(***************************************************************************)
(* Python values                                                           *)
(***************************************************************************)
PyNone == [t |-> "none", s |-> <<>>, n |-> 0]

PyStr(str) == [t |-> "str", s |-> str, n |-> 0]

PyInt(i) == [t |-> "int", s |-> <<>>, n |-> i]

\* a list of str
PyList(items) == [t |-> "list", s |-> items, n |-> 0]

\* bool(v): None, "", 0 and [] are falsy
Truthy(v) ==
    \/ v.t \in {"str", "list"} /\ v.s # <<>>
    \/ v.t = "int" /\ v.n # 0

\* a or b
PyOr(a, b) == IF Truthy(a) THEN a ELSE b

Digit(d) == CASE d = 0 -> "0" [] d = 1 -> "1" [] d = 2 -> "2" [] d = 3 -> "3"
              [] d = 4 -> "4" [] d = 5 -> "5" [] d = 6 -> "6" [] d = 7 -> "7"
              [] d = 8 -> "8" [] d = 9 -> "9"

RECURSIVE DecimalDigits(_)
\* the decimal digits of a natural number, most significant first
DecimalDigits(i) ==
    IF i < 10 THEN <<Digit(i)>>
    ELSE Append(DecimalDigits(i \div 10), Digit(i % 10))

\* str(v) for the values the library puts in a query
str(v) ==
    CASE v.t = "str" -> v.s
      [] v.t = "int" -> IF v.n < 0 THEN <<"-">> \o DecimalDigits(-v.n)
                        ELSE DecimalDigits(v.n)
      [] v.t = "none" -> <<"None">>

RECURSIVE rstrip(_, _)
\* s.rstrip(ch): every trailing ch removed
rstrip(s, ch) ==
    IF s # <<>> /\ s[Len(s)] = ch THEN rstrip(SubSeq(s, 1, Len(s) - 1), ch)
    ELSE s

RECURSIVE join(_, _)
\* sep.join(parts)
join(sep, parts) ==
    IF parts = <<>> THEN <<>>
    ELSE IF Len(parts) = 1 THEN parts[1]
    ELSE parts[1] \o sep \o join(sep, Tail(parts))

RECURSIVE SelectPairs(_)
\* the (k, v) entries of a dict whose value is not None, in insertion order
SelectPairs(params) ==
    IF params = <<>> THEN <<>>
    ELSE IF params[1][2] # PyNone
         THEN <<params[1]>> \o SelectPairs(Tail(params))
         ELSE SelectPairs(Tail(params))

(***************************************************************************)
(* fetch.py: the URL builder                                               *)
(***************************************************************************)
\* const.BASE_URL, which fetch.py reads and const.py does not define
BASE_URL == <<"https:", "/", "/", "evds3.tcmb.gov.tr", "/", "igmevdsms-dis", "/">>

_create_uri_keeps_none(params, endpoint, base_url) ==
    LET resolved_base_url == rstrip(PyOr(base_url, PyStr(BASE_URL)).s, "/")
        ep == IF endpoint # PyNone THEN endpoint.s \o <<"/">> ELSE <<>>
        query_str == join(<<"&">>, [i \in 1..Len(params) |->
                                      params[i][1] \o <<"=">> \o str(params[i][2])])
    IN  resolved_base_url \o <<"/">> \o ep \o query_str

_create_uri(params, endpoint, base_url) ==
    LET resolved_base_url == rstrip(PyOr(base_url, PyStr(BASE_URL)).s, "/")
        ep == IF endpoint # PyNone THEN endpoint.s \o <<"/">> ELSE <<>>
        kept == SelectPairs(params)
        query_str == join(<<"&">>, [i \in 1..Len(kept) |->
                                      kept[i][1] \o <<"=">> \o str(kept[i][2])])
    IN  resolved_base_url \o <<"/">> \o ep \o query_str

(***************************************************************************)
(* HTTP responses: a status code and a body.  response.content,            *)
(* response.text and response.json() are all read from the one body.       *)
(***************************************************************************)
Statuses == {200, 204, 500}

\* bodies that are JSON documents: an empty list, an empty mapping, and a
\* mapping that has an "items" list of records
JsonDocs == {"[]", "{}", "{items}"}

\* the documents that are false in a condition (`not json_data`)
EmptyDocs == {"[]", "{}"}

HtmlErrorTitle == <<"<html>", "<body>", "<div class='", "error-title", "'>", "</div>", "</body>", "</html>">>

HtmlInvalidKey == <<"<html>", "<body>", "invalid key", "</body>", "</html>">>

PlainText == <<"server error">>

Bodies == {<<d>> : d \in JsonDocs} \cup {HtmlErrorTitle, HtmlInvalidKey, PlainText, <<>>}

\* every status with every body
AllResponses == [status_code : Statuses, content : Bodies]

\* the responses the service gives the Client: a JSON document, an error
\* page or plain text with 200, an empty or a JSON body with 204, an HTML or
\* a plain-text error page with 500
Responses ==
    {r \in AllResponses :
        \/ r.status_code = 200 /\ r.content \notin {<<>>, HtmlInvalidKey, <<"{}">>}
        \/ r.status_code = 204 /\ r.content \in {<<>>, <<"{items}">>}
        \/ r.status_code = 500 /\ r.content \in {HtmlInvalidKey, PlainText}}

\* the answers to a metadata query: those, and an empty mapping
MetadataResponses == Responses \cup {[status_code |-> 200, content |-> <<"{}">>]}

NoResponse == [status_code |-> 0, content |-> <<>>]

\* response.json(): the parsed document, or JSONDecodeError
ResponseJson(response) ==
    IF Len(response.content) = 1 /\ response.content[1] \in JsonDocs
    THEN [ok |-> TRUE, v |-> response.content[1]]
    ELSE [ok |-> FALSE, v |-> "JSONDecodeError"]

\* Response.raise_for_status() raises HTTPError for 4xx and 5xx only
RaisesHTTPError(response) ==
    400 <= response.status_code /\ response.status_code < 600

IndexOf(s, sym, from) ==
    LET hits == {i \in from..Len(s) : s[i] = sym}
    IN  IF hits = {} THEN 0 ELSE CHOOSE i \in hits : \A j \in hits : i <= j

RECURSIVE strip(_, _)
\* s.strip(chars): leading and trailing symbols of chars removed
strip(s, chars) ==
    IF s # <<>> /\ s[1] \in chars THEN strip(Tail(s), chars)
    ELSE IF s # <<>> /\ s[Len(s)] \in chars THEN strip(SubSeq(s, 1, Len(s) - 1), chars)
    ELSE s

(***************************************************************************)
(* auth.py                                                                 *)
(***************************************************************************)
\* re.findall(r"<body>(.*?)</body>", ...)[0].strip("\\rn"); IndexError when
\* the body holds no <body>...</body> element
_extract_error_message(response) ==
    LET open == IndexOf(response.content, "<body>", 1)
        close == IF open = 0 THEN 0 ELSE IndexOf(response.content, "</body>", open + 1)
    IN  IF close = 0 THEN [ok |-> FALSE, msg |-> <<>>]
        ELSE [ok |-> TRUE,
              msg |-> strip(SubSeq(response.content, open + 1, close - 1), {"\\", "r", "n"})]

check_status_no_marker_test(response) ==
    IF response.status_code # 200
    THEN IF RaisesHTTPError(response)
         THEN IF _extract_error_message(response).ok THEN "ApiKeyError" ELSE "IndexError"
         ELSE "ok"
    ELSE IF ResponseJson(response).ok THEN "ok"
         ELSE "InvalidSeriesCode"

\* the outcome of check_status: "ok" when it returns, else the error raised
check_status(response) ==
    IF response.status_code # 200
    THEN IF RaisesHTTPError(response)
         THEN IF _extract_error_message(response).ok THEN "ApiKeyError" ELSE "IndexError"
         ELSE "ok"
    ELSE IF ResponseJson(response).ok THEN "ok"
         ELSE IF IndexOf(response.content, "error-title", 1) # 0 THEN "InvalidSeriesCode"
         ELSE "JSONDecodeError"

(***************************************************************************)
(* Requests as requests.get receives them, and the record of one call of a *)
(* library function: its outcome, its return value, the requests it sent,  *)
(* the number of times it ran check_api_key.                               *)
(***************************************************************************)
NoHeaders == [given |-> FALSE, items |-> <<>>]

Headers(items) == [given |-> TRUE, items |-> items]

Request(url, headers) == [url |-> url, headers |-> headers]

Run(outcome, result, reqs, checks) ==
    [outcome |-> outcome, result |-> result, reqs |-> reqs, checks |-> checks]

CHECK_URL == <<"https:", "/", "/", "evds2.tcmb.gov.tr", "/", "service", "/", "evds", "/",
               "categories", "/", "key", "=">>

check_api_key_requests_first(api_key, response) ==
    LET st == IF api_key = PyNone THEN "ApiKeyError" ELSE check_status(response)
    IN  Run(st, IF st = "ok" THEN "True" ELSE "None",
            <<Request(CHECK_URL \o str(api_key), NoHeaders)>>, 1)

check_api_key(api_key, response) ==
    IF api_key = PyNone THEN Run("ApiKeyError", "None", <<>>, 1)
    ELSE LET st == check_status(response)
         IN  Run(st, IF st = "ok" THEN "True" ELSE "None",
                 <<Request(CHECK_URL \o str(api_key), NoHeaders)>>, 1)

(***************************************************************************)
(* fetch.py: get_response                                                  *)
(***************************************************************************)
get_response(params, headers, endpoint, base_url, response) ==
    LET url == _create_uri(params, endpoint, base_url)
        st == check_status(response)
    IN  Run(st, IF st = "ok" THEN "res" ELSE "None", <<Request(url, headers)>>, 0)

(***************************************************************************)
(* utils.py: standardize_date.  A date string is a sequence of characters. *)
(***************************************************************************)
DigitChars == {"0", "1", "2", "3", "4", "5", "6", "7", "8", "9"}

DigitValue(ch) ==
    CASE ch = "0" -> 0 [] ch = "1" -> 1 [] ch = "2" -> 2 [] ch = "3" -> 3 [] ch = "4" -> 4
      [] ch = "5" -> 5 [] ch = "6" -> 6 [] ch = "7" -> 7 [] ch = "8" -> 8 [] ch = "9" -> 9

RECURSIVE Number(_)
\* int() of a run of digits
Number(digits) ==
    IF digits = <<>> THEN 0
    ELSE 10 * Number(SubSeq(digits, 1, Len(digits) - 1)) + DigitValue(digits[Len(digits)])

AllDigits(s, from, to) ==
    /\ from >= 1 /\ to <= Len(s)
    /\ \A i \in from..to : s[i] \in DigitChars

\* "." of a regular expression matches any character, a literal only itself
SepMatches(s, i, sep) == i >= 1 /\ i <= Len(s) /\ (sep = "any" \/ s[i] = sep)

\* re.match(r"\d{1,2}S\d{1,2}S\d{4}", s), S being "-" or an unescaped "."
MatchDayFirst(s, sep) ==
    \E a \in 1..2, b \in 1..2 :
        /\ AllDigits(s, 1, a)
        /\ SepMatches(s, a + 1, sep)
        /\ AllDigits(s, a + 2, a + 1 + b)
        /\ SepMatches(s, a + b + 2, sep)
        /\ AllDigits(s, a + b + 3, a + b + 6)

\* re.match(r"\d{4}S\d{1,2}S\d{1,2}", s)
MatchYearFirst(s, sep) ==
    \E a \in 1..2, b \in 1..2 :
        /\ AllDigits(s, 1, 4)
        /\ SepMatches(s, 5, sep)
        /\ AllDigits(s, 6, 5 + a)
        /\ SepMatches(s, 6 + a, sep)
        /\ AllDigits(s, 7 + a, 6 + a + b)

IsLeap(y) == (y % 4 = 0 /\ y % 100 # 0) \/ y % 400 = 0

DaysInMonth(y, m) ==
    CASE m \in {1, 3, 5, 7, 8, 10, 12} -> 31
      [] m \in {4, 6, 9, 11} -> 30
      [] m = 2 -> IF IsLeap(y) THEN 29 ELSE 28

\* datetime accepts the years 1..9999 and the days of the month
ValidDate(d, m, y) ==
    /\ y >= 1 /\ y <= 9999
    /\ m >= 1 /\ m <= 12
    /\ d >= 1 /\ d <= DaysInMonth(y, m)

NoDate == [ok |-> FALSE, d |-> 0, m |-> 0, y |-> 0]

\* the date in three runs of digits, if they are a date
DateOf(dd, mm, yyyy) ==
    IF ValidDate(Number(dd), Number(mm), Number(yyyy))
    THEN [ok |-> TRUE, d |-> Number(dd), m |-> Number(mm), y |-> Number(yyyy)]
    ELSE NoDate

\* datetime.strptime(s, fmt): the whole of s is %d, %m (one or two digits)
\* and %Y (four digits) in the order and with the separator of fmt;
\* ValueError otherwise
strptime(s, fmt) ==
    LET sep == fmt[3]
        splits == {ab \in (1..2) \X (1..2) :
                      IF fmt[2] = "d"
                      THEN /\ Len(s) = ab[1] + ab[2] + 6
                           /\ AllDigits(s, 1, ab[1])
                           /\ s[ab[1] + 1] = sep
                           /\ AllDigits(s, ab[1] + 2, ab[1] + 1 + ab[2])
                           /\ s[ab[1] + ab[2] + 2] = sep
                           /\ AllDigits(s, ab[1] + ab[2] + 3, ab[1] + ab[2] + 6)
                      ELSE /\ Len(s) = ab[1] + ab[2] + 6
                           /\ AllDigits(s, 1, 4)
                           /\ s[5] = sep
                           /\ AllDigits(s, 6, 5 + ab[1])
                           /\ s[6 + ab[1]] = sep
                           /\ AllDigits(s, 7 + ab[1], 6 + ab[1] + ab[2])}
    IN  IF splits = {} THEN NoDate
        ELSE LET ab == CHOOSE x \in splits : TRUE
             IN  IF fmt[2] = "d"
                 THEN DateOf(SubSeq(s, 1, ab[1]),
                             SubSeq(s, ab[1] + 2, ab[1] + 1 + ab[2]),
                             SubSeq(s, ab[1] + ab[2] + 3, ab[1] + ab[2] + 6))
                 ELSE DateOf(SubSeq(s, 7 + ab[1], 6 + ab[1] + ab[2]),
                             SubSeq(s, 6, 5 + ab[1]),
                             SubSeq(s, 1, 4))

Pad2(i) == IF i < 10 THEN <<"0">> \o DecimalDigits(i) ELSE DecimalDigits(i)

Pad4(i) ==
    IF i < 10 THEN <<"0", "0", "0">> \o DecimalDigits(i)
    ELSE IF i < 100 THEN <<"0", "0">> \o DecimalDigits(i)
    ELSE IF i < 1000 THEN <<"0">> \o DecimalDigits(i)
    ELSE DecimalDigits(i)

\* date.strftime("%d-%m-%Y"): %d and %m are zero-padded; %Y is what the C
\* library of the platform prints, four digits zero-padded or (glibc) the
\* year without padding
strftime(date, pads_year) ==
    Pad2(date.d) \o <<"-">> \o Pad2(date.m) \o <<"-">>
        \o (IF pads_year THEN Pad4(date.y) ELSE DecimalDigits(date.y))

\* the outcome of standardize_date on a platform: the string returned, or
\* UnboundLocalError when no pattern matches (date_format is never bound),
\* or the ValueError of strptime
standardize_date(date_str, pads_year) ==
    LET date_format ==
            IF MatchDayFirst(date_str, "-") THEN <<"%", "d", "-", "%", "m", "-", "%", "Y">>
            ELSE IF MatchDayFirst(date_str, "any") THEN <<"%", "d", ".", "%", "m", ".", "%", "Y">>
            ELSE IF MatchYearFirst(date_str, "-") THEN <<"%", "Y", "-", "%", "m", "-", "%", "d">>
            ELSE IF MatchYearFirst(date_str, "any") THEN <<"%", "Y", ".", "%", "m", ".", "%", "d">>
            ELSE <<>>
    IN  IF date_format = <<>> THEN Run("UnboundLocalError", "None", <<>>, 0)
        ELSE IF ~strptime(date_str, date_format).ok THEN Run("ValueError", "None", <<>>, 0)
        ELSE Run("ok", strftime(strptime(date_str, date_format), pads_year), <<>>, 0)

(***************************************************************************)
(* utils.py: wildcard_search.  Patterns and series codes are sequences of  *)
(* characters.  The regular expressions that the translation of a pattern  *)
(* over letters, digits, ".", "*" and "?" produces are made of a literal   *)
(* character, "." (any character) and either of them followed by "*".      *)
(***************************************************************************)
RECURSIVE replace(_, _, _)
\* s.replace(old, new), old a single character
replace(s, old, new) ==
    IF s = <<>> THEN <<>>
    ELSE (IF s[1] = old THEN new ELSE <<s[1]>>) \o replace(Tail(s), old, new)

RECURSIVE re_compile(_)
\* re.compile(pattern): the sequence of its items, each a character (or ".")
\* taken once or, when "*" follows it, any number of times
re_compile(pattern) ==
    IF pattern = <<>> THEN <<>>
    ELSE IF Len(pattern) >= 2 /\ pattern[2] = "*"
         THEN <<[ch |-> pattern[1], star |-> TRUE]>> \o re_compile(SubSeq(pattern, 3, Len(pattern)))
         ELSE <<[ch |-> pattern[1], star |-> FALSE]>> \o re_compile(Tail(pattern))

\* one item of a regular expression against one character
re_char(item, ch) == item.ch = "." \/ item.ch = ch

RECURSIVE re_match_at(_, _, _, _)
\* the items k.. of a compiled expression match the string from position pos
re_match_at(regex, k, string, pos) ==
    IF k > Len(regex) THEN TRUE
    ELSE IF regex[k].star
         THEN \E n \in 0..(Len(string) - pos + 1) :
                 /\ \A i \in pos..(pos + n - 1) : re_char(regex[k], string[i])
                 /\ re_match_at(regex, k + 1, string, pos + n)
         ELSE /\ pos <= Len(string)
              /\ re_char(regex[k], string[pos])
              /\ re_match_at(regex, k + 1, string, pos + 1)

\* compiled_regex.search(string): a match starting at any position
re_search(regex, string) ==
    \E pos \in 1..(Len(string) + 1) : re_match_at(regex, 1, string, pos)

\* the items argument: a list, or None
NoItems == [given |-> FALSE, list |-> <<>>]

Items(list) == [given |-> TRUE, list |-> list]

\* resources/series.json, the series of all datagroups merged into one list
PackageSeries ==
    << <<"T", ".", "A", "1">>, <<"T", ".", "A", "2">>, <<"T", ".", "B", "1">> >>

wildcard_search_anchored(pattern, items) ==
    LET list == IF items.given THEN items.list ELSE PackageSeries
        compiled_regex == re_compile(replace(replace(pattern, "*", <<".", "*">>), "?", <<".">>))
    IN  SelectSeq(list, LAMBDA item : re_match_at(compiled_regex, 1, item, 1))

\* wildcard_search(pattern, items) with use_package_data left at True
wildcard_search(pattern, items) ==
    LET list == IF items.given THEN items.list ELSE PackageSeries
        compiled_regex == re_compile(replace(replace(pattern, "*", <<".", "*">>), "?", <<".">>))
    IN  SelectSeq(list, LAMBDA item : re_search(compiled_regex, item))

(***************************************************************************)
(* utils.py: to_dataframe.  The data are a list of records; a record is a  *)
(* sequence of <<field, value>> in the order of the JSON object, a value a *)
(* string of characters or None.  A table has an index, the names of its   *)
(* columns and one row of cells per index entry.                           *)
(***************************************************************************)
NaN == [nan |-> TRUE, hundredths |-> 0]

Float(h) == [nan |-> FALSE, hundredths |-> h]

RECURSIVE AddFields(_, _)
AddFields(cols, record) ==
    IF record = <<>> THEN cols
    ELSE AddFields(IF \E i \in 1..Len(cols) : cols[i] = record[1][1]
                   THEN cols ELSE Append(cols, record[1][1]),
                   Tail(record))

RECURSIVE Columns(_, _)
\* pd.DataFrame(data).columns: the fields in the order of first appearance
Columns(data, cols) ==
    IF data = <<>> THEN cols ELSE Columns(Tail(data), AddFields(cols, data[1]))

\* the cell of a record in a column, None (missing) if it has no such field
Cell(record, col) ==
    IF \E i \in 1..Len(record) : record[i][1] = col
    THEN record[CHOOSE i \in 1..Len(record) : record[i][1] = col][2]
    ELSE PyNone

\* the number of digits s has from position from on
DigitRun(s, from) ==
    LET ends == {k \in 0..(Len(s) - from + 1) : AllDigits(s, from, from + k - 1)}
    IN  CHOOSE k \in ends : \A j \in ends : j <= k

\* the date format that the re.match tests of to_dataframe pick for the
\* first index entry, <<>> when none matches
IndexDateFormat(s) ==
    LET a == DigitRun(s, 1)
        b == DigitRun(s, a + 2)
    IN  IF /\ a >= 1 /\ SepMatches(s, a + 1, "-") /\ b >= 1
           /\ SepMatches(s, a + b + 2, "-") /\ DigitRun(s, a + b + 3) >= 4
        THEN <<"%", "d", "-", "%", "m", "-", "%", "Y">>
        ELSE IF a >= 1 /\ SepMatches(s, a + 1, "-") /\ b >= 4
        THEN <<"%", "m", "-", "%", "Y">>
        ELSE IF a >= 4 /\ SepMatches(s, 5, "-") /\ DigitRun(s, 6) >= 1
        THEN <<"%", "Y", "-", "%", "m">>
        ELSE IF a >= 4 THEN <<"%", "Y">>
        ELSE <<>>

\* pd.to_datetime of one index entry with a format: the whole entry must be
\* a date in that format; a date without a day is the first of the month,
\* one without a month the first of January
to_datetime(s, fmt) ==
    LET a == DigitRun(s, 1)
    IN  CASE fmt = <<"%", "d", "-", "%", "m", "-", "%", "Y">> -> strptime(s, fmt)
          [] fmt = <<"%", "m", "-", "%", "Y">> ->
                IF a \in 1..2 /\ Len(s) = a + 5 /\ s[a + 1] = "-" /\ AllDigits(s, a + 2, a + 5)
                THEN DateOf(<<"1">>, SubSeq(s, 1, a), SubSeq(s, a + 2, a + 5))
                ELSE NoDate
          [] fmt = <<"%", "Y", "-", "%", "m">> ->
                IF a = 4 /\ Len(s) \in 6..7 /\ s[5] = "-" /\ AllDigits(s, 6, Len(s))
                THEN DateOf(<<"1">>, SubSeq(s, 6, Len(s)), SubSeq(s, 1, 4))
                ELSE NoDate
          [] fmt = <<"%", "Y">> ->
                IF a = 4 /\ Len(s) = 4 THEN DateOf(<<"1">>, <<"1">>, s) ELSE NoDate

\* float(s) for a string of digits with at most two decimals, in hundredths;
\* ValueError for a string that is not a number
to_float(v) ==
    IF v = PyNone THEN [ok |-> TRUE, v |-> NaN]
    ELSE LET s == v.s
             a == DigitRun(s, 1)
             frac == SubSeq(s, a + 2, Len(s))
         IN  IF a >= 1 /\ Len(s) = a
             THEN [ok |-> TRUE, v |-> Float(100 * Number(s))]
             ELSE IF /\ a >= 1 /\ SepMatches(s, a + 1, ".")
                     /\ Len(frac) \in 1..2 /\ AllDigits(frac, 1, Len(frac))
             THEN [ok |-> TRUE,
                   v |-> Float(100 * Number(SubSeq(s, 1, a))
                                 + (IF Len(frac) = 1 THEN 10 * Number(frac) ELSE Number(frac)))]
             ELSE [ok |-> FALSE, v |-> NaN]

\* the index entry of a missing date
NaT == [ok |-> TRUE, d |-> 0, m |-> 0, y |-> 0]

Table(index, columns, rows) == [index |-> index, columns |-> columns, rows |-> rows]

\* to_dataframe(data): the table, or the error raised on the way to it
to_dataframe(data) ==
    LET all == Columns(data, <<>>)
        cols == SelectSeq(all, LAMBDA c : c # "UNIXTIME")
        index == [i \in 1..Len(data) |-> Cell(data[i], cols[1])]
        date_format == IndexDateFormat(index[1].s)
        dates == [i \in 1..Len(data) |->
                    IF index[i] = PyNone THEN NaT ELSE to_datetime(index[i].s, date_format)]
        cells == [i \in 1..Len(data) |->
                    [j \in 1..(Len(cols) - 1) |-> to_float(Cell(data[i], cols[j + 1]))]]
        kept == {i \in 1..Len(data) : \E j \in 1..(Len(cols) - 1) : ~cells[i][j].v.nan}
        keep == SelectSeq([i \in 1..Len(data) |-> i], LAMBDA i : i \in kept)
    IN  IF ~\E i \in 1..Len(all) : all[i] = "UNIXTIME"
        THEN Run("KeyError", "None", <<>>, 0)
        ELSE IF cols = <<>> THEN Run("IndexError", "None", <<>>, 0)
        ELSE IF index[1] = PyNone THEN Run("TypeError", "None", <<>>, 0)
        ELSE IF date_format = <<>> THEN Run("UnboundLocalError", "None", <<>>, 0)
        ELSE IF \E i \in 1..Len(data) : ~dates[i].ok
             THEN Run("ValueError", "None", <<>>, 0)
        ELSE IF \E i \in 1..Len(data), j \in 1..(Len(cols) - 1) : ~cells[i][j].ok
             THEN Run("ValueError", "None", <<>>, 0)
        ELSE Run("ok",
                 Table([k \in 1..Len(keep) |-> dates[keep[k]]],
                       Tail(cols),
                       [k \in 1..Len(keep) |->
                          [j \in 1..(Len(cols) - 1) |-> cells[keep[k]][j].v]]),
                 <<>>, 0)

(***************************************************************************)
(* core.py: the module-level read                                          *)
(***************************************************************************)
\* date.today().strftime("%d-%m-%Y")
TODAY == <<"today:%d-%m-%Y">>

\* const.FREQ_MAPPING
FREQ_MAPPING ==
    [f \in {"D", "B", "W-FRI", "W", "M", "Q", "2Q", "A", "Y"} |->
        CASE f = "D" -> 1 [] f = "B" -> 2 [] f = "W-FRI" -> 3 [] f = "W" -> 3
          [] f = "M" -> 5 [] f = "Q" -> 6 [] f = "2Q" -> 7 [] f = "A" -> 8 [] f = "Y" -> 8]

\* the "items" of the document "{items}": one record, with its UNIXTIME
ResponseItems ==
    << << <<"Tarih", PyStr(<<"0", "1", "-", "0", "1", "-", "2", "0", "2", "4">>)>>,
          <<"X", PyStr(<<"3", "0", ".", "2", "5">>)>>,
          <<"UNIXTIME", PyStr(<<"1704056400">>)>> >> >>

\* utils.to_dataframe on those items
ResponseItemsFrame == to_dataframe(ResponseItems)

\* res.json()["items"] and utils.to_dataframe on it
ItemsToDataFrame(doc) ==
    CASE doc = "{items}" -> ResponseItemsFrame.outcome
      [] doc = "[]" -> "TypeError"
      [] doc = "{}" -> "KeyError"

\* the DataFrame read returns, with its attrs: a dict, as the sequence of
\* its <<key, value>> in insertion order
DataFrame(attrs) == [df |-> "DataFrame", attrs |-> attrs]

\* a frequency string is replaced by its code; KeyError if it has none
freq_param_unmapped(freq) == [ok |-> TRUE, v |-> freq]

freq_param(freq) ==
    IF freq.t = "str"
    THEN IF Len(freq.s) = 1 /\ freq.s[1] \in DOMAIN FREQ_MAPPING
         THEN [ok |-> TRUE, v |-> PyInt(FREQ_MAPPING[freq.s[1]])]
         ELSE [ok |-> FALSE, v |-> PyNone]
    ELSE [ok |-> TRUE, v |-> freq]

\* sub in s, for a string sub of one or two characters
Contains(s, sub) ==
    \E i \in 1..(Len(s) - Len(sub) + 1) : SubSeq(s, i, i + Len(sub) - 1) = sub

series_param_star_only(series) ==
    LET found == IF series.t = "str" /\ Contains(series.s, <<"*">>)
                 THEN PyList(wildcard_search(series.s, NoItems))
                 ELSE series
    IN  IF found.t = "list" THEN PyStr(join(<<"-">>, found.s)) ELSE found

\* a str with a wildcard is replaced by the codes found in the package
\* data, and a list by its elements joined with "-"
series_param(series) ==
    LET found == IF /\ series.t = "str"
                    /\ \/ Contains(series.s, <<"*">>)
                       \/ Contains(series.s, <<"?">>)
                       \/ Contains(series.s, <<".", ".">>)
                 THEN PyList(wildcard_search(series.s, NoItems))
                 ELSE series
    IN  IF found.t = "list" THEN PyStr(join(<<"-">>, found.s)) ELSE found

agg_param(agg) == IF agg.t = "list" THEN PyStr(join(<<"-">>, agg.s)) ELSE agg

\* `if start: start = utils.standardize_date(start)`
date_param(date, pads_year) ==
    IF Truthy(date)
    THEN LET assigned(std) ==
                 [outcome |-> std.outcome,
                  v |-> IF std.outcome = "ok" THEN PyStr(std.result) ELSE PyNone]
         IN  assigned(standardize_date(date.s, pads_year))
    ELSE [outcome |-> "ok", v |-> date]

\* the arguments of a call of read with start, end, agg and freq left out,
\* on a platform that pads the year
ReadArgs(series, headers, api_key) ==
    [series |-> series, start |-> PyNone, end |-> PyNone, agg |-> PyNone, freq |-> PyNone,
     headers |-> headers, api_key |-> api_key, pads_year |-> TRUE]

\* args: series, start, end, agg, freq, headers, api_key, and pads_year, the
\* platform the call runs on
read(args, envv, response) ==
    LET api_key == PyOr(args.api_key, envv)
        series == series_param(args.series)
        agg == agg_param(args.agg)
        params(freq, start, end) ==
            << <<<<"series">>, series>>,
               <<<<"startDate">>, PyOr(start.v, PyStr(<<"01-01-1970">>))>>,
               <<<<"endDate">>, PyOr(end.v, PyStr(TODAY))>>,
               <<<<"type">>, PyStr(<<"json">>)>>,
               <<<<"aggregationTypes">>, agg>>,
               <<<<"key">>, api_key>>,
               <<<<"formulas">>, PyNone>>,
               <<<<"frequency">>, freq.v>>,
               <<<<"decimalSeperator">>, PyStr(<<".">>)>> >>
        \* res = get_response(...); utils.to_dataframe(res.json()["items"])
        returned(res, json, frame) ==
            IF res.outcome # "ok" THEN res
            ELSE IF ~json.ok THEN Run("JSONDecodeError", "None", res.reqs, 0)
            ELSE IF frame # "ok" THEN Run(frame, "None", res.reqs, 0)
            ELSE Run("ok", DataFrame(<<>>), res.reqs, 0)
        body(freq, start, end) ==
            IF ~freq.ok THEN Run("KeyError", "None", <<>>, 0)
            ELSE IF start.outcome # "ok" THEN Run(start.outcome, "None", <<>>, 0)
            ELSE IF end.outcome # "ok" THEN Run(end.outcome, "None", <<>>, 0)
            ELSE returned(get_response(params(freq, start, end), args.headers,
                                       PyNone, PyNone, response),
                          ResponseJson(response),
                          ItemsToDataFrame(ResponseJson(response).v))
    IN  body(freq_param(args.freq),
             date_param(args.start, args.pads_year),
             date_param(args.end, args.pads_year))

(***************************************************************************)
(* core.py: Client                                                         *)
(***************************************************************************)
UNSET == "unset"

NoClient == [alive |-> FALSE, api_key |-> PyNone, categories |-> UNSET, datagroups |-> UNSET]

\* res.json() of a response that get_response returned
JsonOf(res, response) ==
    IF res.outcome # "ok" THEN res
    ELSE IF ~ResponseJson(response).ok THEN Run("JSONDecodeError", "None", res.reqs, 0)
    ELSE Run("ok", ResponseJson(response).v, res.reqs, 0)

\* Client.__init__: the key it stores and the run of its validation
Client_init(api_key, envv, response) ==
    LET key == PyOr(api_key, envv)
    IN  [api_key |-> key, run |-> check_api_key(key, response)]

get_categories_metadata(self, response) ==
    LET params == << <<<<"type">>, PyStr(<<"json">>)>>, <<<<"key">>, self.api_key>> >>
    IN  JsonOf(get_response(params, NoHeaders, PyStr(<<"categories">>), PyNone, response),
               response)

get_datagroups_metadata_returns_empty(self, mode, code, response) ==
    LET params == << <<<<"mode">>, PyStr(str(PyInt(mode)))>>,
                     <<<<"code">>, code>>,
                     <<<<"type">>, PyStr(<<"json">>)>>,
                     <<<<"key">>, self.api_key>> >>
        json == JsonOf(get_response(params, NoHeaders, PyStr(<<"datagroups">>), PyNone,
                                    response), response)
    IN  IF mode > 0 /\ code = PyNone THEN Run("ValueError", "None", <<>>, 0)
        ELSE json

get_datagroups_metadata(self, mode, code, response) ==
    LET params == << <<<<"mode">>, PyStr(str(PyInt(mode)))>>,
                     <<<<"code">>, code>>,
                     <<<<"type">>, PyStr(<<"json">>)>>,
                     <<<<"key">>, self.api_key>> >>
        json == JsonOf(get_response(params, NoHeaders, PyStr(<<"datagroups">>), PyNone,
                                    response), response)
    IN  IF mode > 0 /\ code = PyNone THEN Run("ValueError", "None", <<>>, 0)
        ELSE IF json.outcome = "ok" /\ json.result \in EmptyDocs
             THEN Run("ValueError", "None", json.reqs, 0)
        ELSE json

get_series_metadata_requests_first(self, series, datagroup, response) ==
    LET params == << <<<<"code">>, PyOr(series, datagroup)>>,
                     <<<<"type">>, PyStr(<<"json">>)>>,
                     <<<<"key">>, self.api_key>> >>
        json == JsonOf(get_response(params, NoHeaders, PyStr(<<"serieList">>), PyNone,
                                    response), response)
    IN  IF series = PyNone /\ datagroup = PyNone
        THEN Run("ValueError", "None", json.reqs, 0)
        ELSE json

get_series_metadata(self, series, datagroup, response) ==
    LET params == << <<<<"code">>, PyOr(series, datagroup)>>,
                     <<<<"type">>, PyStr(<<"json">>)>>,
                     <<<<"key">>, self.api_key>> >>
    IN  IF series = PyNone /\ datagroup = PyNone THEN Run("ValueError", "None", <<>>, 0)
        ELSE JsonOf(get_response(params, NoHeaders, PyStr(<<"serieList">>), PyNone,
                                 response), response)

RECURSIVE split(_, _)
\* s.split(sep)
split(s, sep) ==
    LET i == IndexOf(s, sep, 1)
    IN  IF i = 0 THEN <<s>>
        ELSE <<SubSeq(s, 1, i - 1)>> \o split(SubSeq(s, i + 1, Len(s)), sep)

\* attrs[key] = value
DictSet(dict, key, value) ==
    IF \E i \in 1..Len(dict) : dict[i][1] = key
    THEN [i \in 1..Len(dict) |-> IF dict[i][1] = key THEN <<key, value>> ELSE dict[i]]
    ELSE Append(dict, <<key, value>>)

RECURSIVE SeriesMetadataLoop(_, _, _)
\* the loop of Client.read over series.split("-"): one get_series_metadata
\* per item, its result stored in attrs under the item, stopped by the first
\* one that raises; the runs it can have over the responses the service may
\* give
SeriesMetadataLoop(self, items, acc) ==
    IF items = <<>> THEN {acc}
    ELSE UNION {
        LET step(md) ==
                IF md.outcome # "ok"
                THEN {Run(md.outcome, "None", acc.reqs \o md.reqs, 0)}
                ELSE SeriesMetadataLoop(self, Tail(items),
                                        Run("ok",
                                            DataFrame(DictSet(acc.result.attrs, items[1],
                                                              md.result)),
                                            acc.reqs \o md.reqs, 0))
        IN  step(get_series_metadata(self, PyStr(items[1]), PyNone, response))
        : response \in Responses }

Client_read_validates_again(self, args, metadata, envv, response) ==
    LET after(chk, df) ==
            IF chk.outcome # "ok" THEN {chk}
            ELSE IF df.outcome # "ok" \/ ~metadata THEN {[df EXCEPT !.checks = 1]}
            ELSE IF args.series.t # "str"
                 THEN {Run("AttributeError", "None", df.reqs, 1)}
            ELSE {[r EXCEPT !.checks = 1] :
                     r \in SeriesMetadataLoop(self, split(args.series.s, "-"), df)}
    IN  after(check_api_key(self.api_key, response),
              read([args EXCEPT !.api_key = self.api_key], envv, response))

\* Client.read: the runs it can have when the data read is answered by
\* response; the series argument, not the series read, is split, and a list
\* has no split
Client_read(self, args, metadata, envv, response) ==
    LET after(df) ==
            IF df.outcome # "ok" \/ ~metadata THEN {df}
            ELSE IF args.series.t # "str"
                 THEN {Run("AttributeError", "None", df.reqs, 0)}
            ELSE SeriesMetadataLoop(self, split(args.series.s, "-"), df)
    IN  after(read([args EXCEPT !.api_key = self.api_key], envv, response))

(***************************************************************************)
(* The state: the environment variable TCMB_API_KEY, the Client instances  *)
(* in the order of their construction, and the record of the last call     *)
(* made to the library.                                                    *)
(***************************************************************************)
NumClients == 2

Clients == 1..NumClients

Keys == {PyStr(<<>>), PyStr(<<"K1">>)}

KeyArgs == Keys \cup {PyNone}

SeriesArgs == {PyStr(<<"S1">>), PyStr(<<"S1", "-", "S2">>)}

HeaderArgs == {NoHeaders, Headers(<< <<<<"foo">>, <<"bar">>>> >>)}

Modes == {0, 1, 2}

CodeArgs == {PyNone, PyStr(<<"bie_yssk">>)}

SeriesCodeArgs == {PyNone, PyStr(<<"S1">>)}

EndpointArgs == {PyNone, PyStr(<<"categories">>)}

Last(op, cid, api_key, envv, response, run) ==
    [op |-> op, cid |-> cid, api_key |-> api_key, env |-> envv, response |-> response,
     args |-> <<>>,
     outcome |-> run.outcome, result |-> run.result, reqs |-> run.reqs,
     checks |-> run.checks]

Init ==
    /\ env \in KeyArgs
    /\ client = [c \in Clients |-> NoClient]
    /\ last = Last("none", 0, PyNone, PyNone, NoResponse, Run("ok", "None", <<>>, 0))

\* os.environ["TCMB_API_KEY"] is set, changed or unset by the process
SetEnv(v) ==
    /\ v # env
    /\ env' = v
    /\ UNCHANGED <<client, last>>

CallCheckStatus(response) ==
    /\ \E st \in {check_status(response)} :
          last' = Last("check_status", 0, PyNone, PyNone, response,
                       Run(st, "None", <<>>, 0))
    /\ UNCHANGED <<env, client>>

CallCheckApiKey(api_key, response) ==
    /\ \E run \in {check_api_key(api_key, response)} :
          last' = Last("check_api_key", 0, api_key, PyNone,
                       IF run.reqs = <<>> THEN NoResponse ELSE response, run)
    /\ UNCHANGED <<env, client>>

CallGetResponse(headers, endpoint, response) ==
    /\ \E run \in {get_response(<< <<<<"type">>, PyStr(<<"json">>)>> >>, headers,
                                endpoint, PyNone, response)} :
          last' = Last("get_response", 0, PyNone, PyNone, response, run)
    /\ UNCHANGED <<env, client>>

ModuleRead(series, headers, api_key, response) ==
    /\ \E run \in {read(ReadArgs(series, headers, api_key), env, response)} :
          last' = Last("read", 0, api_key, env, NoResponse, run)
    /\ UNCHANGED <<env, client>>

\* Client(api_key): the instance exists only if __init__ returned
NewClient(c, api_key, response) ==
    /\ ~client[c].alive
    /\ \A d \in Clients : d < c => client[d].alive
    /\ \E new \in {Client_init(api_key, env, response)} :
          /\ last' = Last("Client", c, api_key, env, NoResponse, new.run)
          /\ client' = IF new.run.outcome = "ok"
                       THEN [client EXCEPT ![c] = [NoClient EXCEPT !.alive = TRUE,
                                                                   !.api_key = new.api_key]]
                       ELSE client
    /\ UNCHANGED env

ClientRead(c, series, headers, metadata, response) ==
    /\ client[c].alive
    /\ \E run \in Client_read(client[c], ReadArgs(series, headers, PyNone),
                              metadata, env, response) :
          last' = Last("Client.read", c, PyNone, PyNone, NoResponse, run)
    /\ UNCHANGED <<env, client>>

GetCategoriesMetadata(c, response) ==
    /\ client[c].alive
    /\ \E run \in {get_categories_metadata(client[c], response)} :
          last' = Last("get_categories_metadata", c, PyNone, PyNone, NoResponse, run)
    /\ UNCHANGED <<env, client>>

GetDatagroupsMetadata(c, mode, code, response) ==
    /\ client[c].alive
    /\ \E run \in {get_datagroups_metadata(client[c], mode, code, response)} :
          last' = [Last("get_datagroups_metadata", c, PyNone, PyNone,
                        IF run.reqs = <<>> THEN NoResponse ELSE response, run)
                      EXCEPT !.args = <<mode, code>>]
    /\ UNCHANGED <<env, client>>

GetSeriesMetadata(c, series, datagroup, response) ==
    /\ client[c].alive
    /\ \E run \in {get_series_metadata(client[c], series, datagroup, response)} :
          last' = [Last("get_series_metadata", c, PyNone, PyNone, NoResponse, run)
                      EXCEPT !.args = <<series, datagroup>>]
    /\ UNCHANGED <<env, client>>

Categories_fetches_again(c, response) ==
    /\ client[c].alive
    /\ \E run \in {get_categories_metadata(client[c], response)} :
          /\ last' = Last("categories", c, PyNone, PyNone, NoResponse, run)
          /\ client' = [client EXCEPT
                          ![c].categories = IF run.outcome = "ok" THEN run.result ELSE @]
    /\ UNCHANGED env

\* @cached_property categories: the stored value if there is one, else
\* get_categories_metadata(), stored when it returns
Categories(c, response) ==
    /\ client[c].alive
    /\ \E run \in {IF client[c].categories # UNSET
                   THEN Run("ok", client[c].categories, <<>>, 0)
                   ELSE get_categories_metadata(client[c], response)} :
          /\ last' = Last("categories", c, PyNone, PyNone,
                          IF run.reqs = <<>> THEN NoResponse ELSE response, run)
          /\ client' = [client EXCEPT
                          ![c].categories = IF run.outcome = "ok" THEN run.result ELSE @]
    /\ UNCHANGED env

Datagroups_stores_failure(c, response) ==
    /\ client[c].alive
    /\ \E run \in {IF client[c].datagroups # UNSET
                   THEN Run("ok", client[c].datagroups, <<>>, 0)
                   ELSE get_datagroups_metadata(client[c], 0, PyNone, response)} :
          /\ last' = Last("datagroups", c, PyNone, PyNone,
                          IF run.reqs = <<>> THEN NoResponse ELSE response, run)
          /\ client' = [client EXCEPT ![c].datagroups = run.result]
    /\ UNCHANGED env

\* @cached_property datagroups
Datagroups(c, response) ==
    /\ client[c].alive
    /\ \E run \in {IF client[c].datagroups # UNSET
                   THEN Run("ok", client[c].datagroups, <<>>, 0)
                   ELSE get_datagroups_metadata(client[c], 0, PyNone, response)} :
          /\ last' = Last("datagroups", c, PyNone, PyNone,
                          IF run.reqs = <<>> THEN NoResponse ELSE response, run)
          /\ client' = [client EXCEPT
                          ![c].datagroups = IF run.outcome = "ok" THEN run.result ELSE @]
    /\ UNCHANGED env

(***************************************************************************)
(* Spec: one process, one Client instance, every operation of the library  *)
(* on it, the environment variable changing in between.                    *)
(***************************************************************************)
Next ==
    \/ \E v \in KeyArgs : SetEnv(v)
    \/ \E h \in HeaderArgs, k \in KeyArgs, r \in Responses :
          ModuleRead(PyStr(<<"S1">>), h, k, r)
    \/ \E k \in KeyArgs, r \in Responses : NewClient(1, k, r)
    \/ \E s \in SeriesArgs, h \in HeaderArgs, m \in BOOLEAN, r \in Responses :
          ClientRead(1, s, h, m, r)
    \/ \E r \in Responses : GetCategoriesMetadata(1, r)
    \/ \E m \in Modes, d \in CodeArgs, r \in Responses : GetDatagroupsMetadata(1, m, d, r)
    \/ \E s \in SeriesCodeArgs, d \in CodeArgs, r \in Responses :
          GetSeriesMetadata(1, s, d, r)
    \/ \E r \in Responses : Categories(1, r)
    \/ \E r \in Responses : Datagroups(1, r)

Spec == Init /\ [][Next]_vars

(***************************************************************************)
(* SpecAuth: auth.py and fetch.get_response called directly, on every      *)
(* status and body.                                                        *)
(***************************************************************************)
NextAuth ==
    \/ \E r \in AllResponses : CallCheckStatus(r)
    \/ \E k \in KeyArgs, r \in AllResponses : CallCheckApiKey(k, r)
    \/ \E h \in HeaderArgs, e \in EndpointArgs, r \in AllResponses : CallGetResponse(h, e, r)

SpecAuth == Init /\ [][NextAuth]_vars

(***************************************************************************)
(* SpecCache: several Client instances and their memoized properties.      *)
(***************************************************************************)
NextCache ==
    \/ \E c \in Clients, k \in Keys, r \in Responses : NewClient(c, k, r)
    \/ \E c \in Clients, r \in Responses : GetCategoriesMetadata(c, r)
    \/ \E c \in Clients, r \in MetadataResponses : GetDatagroupsMetadata(c, 0, PyNone, r)
    \/ \E c \in Clients, r \in MetadataResponses : Categories(c, r)
    \/ \E c \in Clients, r \in MetadataResponses : Datagroups(c, r)

SpecCache == Init /\ [][NextCache]_vars

(***************************************************************************)
(* SpecMeta: one Client instance and its three metadata methods, with      *)
(* every combination of their arguments.                                   *)
(***************************************************************************)
NextMeta ==
    \/ \E k \in KeyArgs, r \in Responses : NewClient(1, k, r)
    \/ \E r \in MetadataResponses : GetCategoriesMetadata(1, r)
    \/ \E m \in Modes, d \in CodeArgs, r \in MetadataResponses :
          GetDatagroupsMetadata(1, m, d, r)
    \/ \E s \in SeriesCodeArgs, d \in CodeArgs, r \in MetadataResponses :
          GetSeriesMetadata(1, s, d, r)

SpecMeta == Init /\ [][NextMeta]_vars

(***************************************************************************)
(* What a request carries on the wire                                      *)
(***************************************************************************)
\* the query entry name=... of a URL: the position of name, 0 if there is none
QueryEntry(url, name) ==
    LET hits == {i \in 2..(Len(url) - 1) :
                    url[i] = name /\ url[i + 1] = "=" /\ url[i - 1] \in {"/", "&"}}
    IN  IF hits = {} THEN 0 ELSE CHOOSE i \in hits : \A j \in hits : i <= j

\* the value of the query entry name=value of a URL: up to the next "&"
QueryValue(url, name) ==
    LET i == QueryEntry(url, name)
        amp == IndexOf(url, "&", i + 2)
    IN  SubSeq(url, i + 2, IF amp = 0 THEN Len(url) ELSE amp - 1)

HeaderEntry(headers, name) ==
    {i \in 1..Len(headers.items) : headers.items[i][1] = name}

\* the key a request carries, in its header "key" or else in its URL
RequestKey(req) ==
    IF HeaderEntry(req.headers, <<"key">>) # {}
    THEN PyStr(req.headers.items[CHOOSE i \in HeaderEntry(req.headers, <<"key">>) : TRUE][2])
    ELSE IF QueryEntry(req.url, "key") # 0 THEN PyStr(QueryValue(req.url, "key"))
    ELSE PyNone

\* the path segment /name/ of a URL
HasSegment(url, name) ==
    \E i \in 1..(Len(url) - 2) : url[i] = "/" /\ url[i + 1] = name /\ url[i + 2] = "/"

ClientOps == {"Client.read", "get_categories_metadata", "get_datagroups_metadata",
              "get_series_metadata", "categories", "datagroups"}

(***************************************************************************)
(* C1: with no API key anywhere (no api_key argument, TCMB_API_KEY unset)  *)
(* the module-level read and the Client constructor fail with ApiKeyError  *)
(* and have sent no request.                                               *)
(***************************************************************************)
C1_NoKeyFailsBeforeAnyRequest ==
    (last.op \in {"read", "Client"} /\ last.api_key = PyNone /\ last.env = PyNone)
        => (last.outcome = "ApiKeyError" /\ last.reqs = <<>>)

(***************************************************************************)
(* C2: check_api_key(None) raises ApiKeyError having sent nothing; with a  *)
(* key it sends exactly one GET to the categories endpoint, raises what    *)
(* check_status raises on the response, and returns True only when         *)
(* check_status returned.                                                  *)
(***************************************************************************)
C2_CheckApiKey ==
    last.op = "check_api_key" =>
        /\ last.api_key = PyNone =>
              (last.outcome = "ApiKeyError" /\ last.reqs = <<>> /\ last.result # "True")
        /\ last.api_key # PyNone =>
              /\ Len(last.reqs) = 1
              /\ HasSegment(last.reqs[1].url, "categories")
              /\ last.outcome = check_status(last.response)
              /\ last.result = "True" <=> last.outcome = "ok"

C2_Witness ==
    /\ last.op = "check_api_key"
    /\ last.api_key = PyStr(<<"K1">>)
    /\ last.result = "True"
    /\ Len(last.reqs) = 1

(***************************************************************************)
(* C3: the key validation runs once for a Client, in its construction; an  *)
(* instance comes to exist only by a construction whose validation         *)
(* succeeded; no later operation on the instance validates the key again.  *)
(***************************************************************************)
C3_ValidatedOnceAtConstruction ==
    /\ [](last.op = "Client" => last.checks = 1)
    /\ [](last.op \in ClientOps => (last.checks = 0 /\ client[last.cid].alive))
    /\ [][\A c \in Clients :
            /\ (~client[c].alive /\ client'[c].alive) =>
                  /\ last'.op = "Client" /\ last'.cid = c
                  /\ last'.outcome = "ok" /\ last'.checks = 1
            /\ (last'.op = "Client" /\ last'.cid = c /\ last'.outcome # "ok" /\ last' # last) =>
                  ~client'[c].alive]_vars

C3_Witness ==
    /\ last.op = "Client.read"
    /\ last.outcome = "ok"
    /\ Len(last.reqs) = 3
    /\ client[1].categories # UNSET

(***************************************************************************)
(* C4: every request of a Client operation carries the key the instance    *)
(* stored at construction, whatever TCMB_API_KEY has become since.         *)
(***************************************************************************)
C4_RequestsCarryStoredKey ==
    (last.op \in ClientOps /\ client[last.cid].alive) =>
        \A i \in 1..Len(last.reqs) : RequestKey(last.reqs[i]) = client[last.cid].api_key

(***************************************************************************)
(* C5: a memoized property of an instance is populated only by an access   *)
(* of that property on that instance; an access of an unpopulated property *)
(* sends exactly one request, to the property's endpoint; once populated   *)
(* the value never changes, and an access sends nothing and returns it.    *)
(***************************************************************************)
Memo(cl, c, p) == IF p = "categories" THEN cl[c].categories ELSE cl[c].datagroups

C5_LazyMemoizedProperties ==
    [][\A c \in Clients, p \in {"categories", "datagroups"} :
          /\ Memo(client, c, p) # UNSET => Memo(client', c, p) = Memo(client, c, p)
          /\ (Memo(client, c, p) = UNSET /\ Memo(client', c, p) # UNSET) =>
                /\ last'.op = p /\ last'.cid = c /\ last'.outcome = "ok"
                /\ Len(last'.reqs) = 1 /\ HasSegment(last'.reqs[1].url, p)
                /\ last'.result = Memo(client', c, p)
          /\ (last' # last /\ last'.op = p /\ last'.cid = c) =>
                IF Memo(client, c, p) # UNSET
                THEN /\ last'.reqs = <<>>
                     /\ last'.outcome = "ok"
                     /\ last'.result = Memo(client, c, p)
                ELSE /\ Len(last'.reqs) = 1
                     /\ HasSegment(last'.reqs[1].url, p)]_vars

C5_Witness ==
    /\ last.op = "categories" /\ last.cid = 2
    /\ last.reqs = <<>> /\ last.outcome = "ok"
    /\ client[2].categories = "[]"
    /\ client[2].datagroups = UNSET
    /\ client[1].alive /\ client[1].categories = UNSET /\ client[1].datagroups # UNSET

(***************************************************************************)
(* C6: check_status raises ApiKeyError on every response whose status is   *)
(* not 200.                                                                *)
(***************************************************************************)
C6_Non200RaisesApiKeyError ==
    (last.op = "check_status" /\ last.response.status_code # 200)
        => last.outcome = "ApiKeyError"

(***************************************************************************)
(* C7: on a 200 response check_status returns when the body is JSON,       *)
(* raises InvalidSeriesCode when it is not and the text holds              *)
(* "error-title", and re-raises the JSON parse error otherwise;            *)
(* get_response returns a response only if check_status returned on it.    *)
(***************************************************************************)
IsJsonBody(content) == \E d \in JsonDocs : content = <<d>>

HasErrorTitle(content) == \E i \in 1..Len(content) : content[i] = "error-title"

C7_Status200Classification ==
    /\ (last.op \in {"check_status", "get_response"} /\ last.response.status_code = 200) =>
          /\ IsJsonBody(last.response.content) => last.outcome = "ok"
          /\ (~IsJsonBody(last.response.content) /\ HasErrorTitle(last.response.content))
                => last.outcome = "InvalidSeriesCode"
          /\ (~IsJsonBody(last.response.content) /\ ~HasErrorTitle(last.response.content))
                => last.outcome = "JSONDecodeError"
    /\ last.op = "get_response" =>
          /\ Len(last.reqs) = 1
          /\ last.result = "res" <=> last.outcome = "ok"
          /\ last.outcome = check_status(last.response)

C7_Witness ==
    /\ last.op = "get_response"
    /\ last.response.status_code = 200
    /\ last.response.content = HtmlErrorTitle
    /\ last.outcome = "InvalidSeriesCode"
    /\ last.result = "None"

(***************************************************************************)
(* C8: every request sent carries the API key in the header "key", with    *)
(* the caller's headers kept, and never in the URL.                        *)
(***************************************************************************)
C8_KeyInHeaderNotInUrl ==
    \A i \in 1..Len(last.reqs) :
        /\ HeaderEntry(last.reqs[i].headers, <<"key">>) # {}
        /\ QueryEntry(last.reqs[i].url, "key") = 0

(***************************************************************************)
(* SpecUri: _create_uri applied to a base URL, an endpoint and a dict of   *)
(* parameters drawn by the initial state.                                  *)
(***************************************************************************)
MaxParams == 3

ParamKeys == {<<"a">>, <<"b">>, <<"c">>}

ParamValues == {PyNone, PyInt(0), PyInt(1), PyInt(10), PyStr(<<"x">>), PyStr(<<>>)}

\* the key orders of the dicts of at most MaxParams entries
KeySeqs ==
    UNION {{ks \in [1..n -> ParamKeys] : \A i, j \in 1..n : ks[i] = ks[j] => i = j} :
              n \in 0..MaxParams}

ParamDicts ==
    UNION {{[i \in 1..Len(ks) |-> <<ks[i], vs[i]>>] : vs \in [1..Len(ks) -> ParamValues]} :
              ks \in KeySeqs}

BaseUrlArgs == {PyNone, PyStr(<<>>), PyStr(<<"h">>), PyStr(<<"h", "/">>),
                PyStr(<<"h", "/", "/">>), PyStr(<<"h", "/", "p", "/">>)}

Pending(fn, args) ==
    [Last("call", 0, PyNone, PyNone, NoResponse, Run("ok", "None", <<>>, 0))
        EXCEPT !.args = <<fn>> \o args]

InitUri ==
    /\ env = PyNone
    /\ client = [c \in Clients |-> NoClient]
    /\ \E params \in ParamDicts, endpoint \in EndpointArgs, base_url \in BaseUrlArgs :
          last = Pending("_create_uri", <<params, endpoint, base_url>>)

CallCreateUri ==
    /\ last.op = "call" /\ last.args[1] = "_create_uri"
    /\ last' = [last EXCEPT !.op = "_create_uri",
                            !.result = _create_uri(last.args[2], last.args[3], last.args[4])]
    /\ UNCHANGED <<env, client>>

NextUri == CallCreateUri

SpecUri == InitUri /\ [][NextUri]_vars

(***************************************************************************)
(* C9: _create_uri returns the base URL (the default when none is given)   *)
(* without its trailing slash, then "/", then the endpoint and "/" if one  *)
(* is given, then key=str(value) for the entries whose value is not None,  *)
(* in insertion order, joined by "&".                                      *)
(***************************************************************************)
RECURSIVE QueryTail(_, _)
\* the query read off the entries one at a time; started is whether an
\* entry has been written already
QueryTail(params, started) ==
    IF params = <<>> THEN <<>>
    ELSE IF params[1][2].t = "none" THEN QueryTail(Tail(params), started)
    ELSE (IF started THEN <<"&">> ELSE <<>>)
            \o params[1][1] \o <<"=">>
            \o (CASE params[1][2] = PyInt(0) -> <<"0">>
                  [] params[1][2] = PyInt(1) -> <<"1">>
                  [] params[1][2] = PyInt(10) -> <<"1", "0">>
                  [] OTHER -> params[1][2].s)
            \o QueryTail(Tail(params), TRUE)

\* stem is base without its trailing slashes
IsStripped(stem, base) ==
    /\ Len(stem) <= Len(base)
    /\ stem = SubSeq(base, 1, Len(stem))
    /\ \A i \in (Len(stem) + 1)..Len(base) : base[i] = "/"
    /\ stem = <<>> \/ stem[Len(stem)] # "/"

C9_CreateUri ==
    last.op = "_create_uri" =>
        LET params == last.args[2]
            endpoint == last.args[3]
            base_url == last.args[4]
            base == IF base_url \in {PyNone, PyStr(<<>>)} THEN BASE_URL ELSE base_url.s
            tail == <<"/">> \o (IF endpoint = PyNone THEN <<>> ELSE endpoint.s \o <<"/">>)
                        \o QueryTail(params, FALSE)
            url == last.result
        IN  /\ Len(url) >= Len(tail)
            /\ SubSeq(url, Len(url) - Len(tail) + 1, Len(url)) = tail
            /\ IsStripped(SubSeq(url, 1, Len(url) - Len(tail)), base)

\* {"a": 1, "b": None, "c": "x"}, no endpoint, the default base URL
C9_Witness ==
    /\ last.op = "_create_uri"
    /\ last.args[2] = << <<<<"a">>, PyInt(1)>>, <<<<"b">>, PyNone>>, <<<<"c">>, PyStr(<<"x">>)>> >>
    /\ last.args[3] = PyNone
    /\ last.args[4] = PyNone
    /\ last.result = <<"https:", "/", "/", "evds3.tcmb.gov.tr", "/", "igmevdsms-dis", "/",
                       "a", "=", "1", "&", "c", "=", "x">>

(***************************************************************************)
(* SpecDate: standardize_date applied to a date written in one of the four *)
(* accepted shapes, on either kind of platform.                            *)
(***************************************************************************)
Days == {1, 12, 29, 31}

Months == {1, 2, 11}

Years == {999, 2023, 2024}

Shapes == {"D-M-Y", "D.M.Y", "Y-M-D", "Y.M.D"}

Written(i, padded) == IF padded THEN Pad2(i) ELSE DecimalDigits(i)

\* the day d of month m of year y written in a shape, day and month with or
\* without a leading zero
DateString(d, m, y, shape, pad_d, pad_m) ==
    CASE shape = "D-M-Y" -> Written(d, pad_d) \o <<"-">> \o Written(m, pad_m) \o <<"-">> \o Pad4(y)
      [] shape = "D.M.Y" -> Written(d, pad_d) \o <<".">> \o Written(m, pad_m) \o <<".">> \o Pad4(y)
      [] shape = "Y-M-D" -> Pad4(y) \o <<"-">> \o Written(m, pad_m) \o <<"-">> \o Written(d, pad_d)
      [] shape = "Y.M.D" -> Pad4(y) \o <<".">> \o Written(m, pad_m) \o <<".">> \o Written(d, pad_d)

\* strings that are not a date in any of the four shapes: the first five
\* match none of the patterns, the last three match one (the unescaped "."
\* matches any character, re.match anchors the start only) and are refused
\* by strptime
OtherStrings ==
    { <<>>,
      <<"1", "-", "1", "-", "2", "4">>,
      <<"0", "1", "-", "0", "1", "-", "9", "9", "9">>,
      <<"J", "a", "n", " ", "1">>,
      <<"2", "0", "2", "4", "0", "1">>,
      <<"0", "1", "/", "0", "1", "/", "2", "0", "2", "4">>,
      <<"0", "1", "-", "0", "1", "-", "2", "0", "2", "4", "5">>,
      <<"2", "0", "2", "4", "0", "1", "0", "1">> }

InitDate ==
    /\ env = PyNone
    /\ client = [c \in Clients |-> NoClient]
    /\ \/ \E d \in Days, m \in Months, y \in Years, shape \in Shapes,
             pad_d \in BOOLEAN, pad_m \in BOOLEAN, pads_year \in BOOLEAN :
             last = Pending("standardize_date",
                            <<DateString(d, m, y, shape, pad_d, pad_m), pads_year,
                              [d |-> d, m |-> m, y |-> y, shape |-> shape]>>)
       \/ \E other \in OtherStrings, pads_year \in BOOLEAN :
             last = Pending("standardize_date",
                            <<other, pads_year,
                              [d |-> 0, m |-> 0, y |-> 0, shape |-> "none"]>>)

CallStandardizeDate ==
    /\ last.op = "call" /\ last.args[1] = "standardize_date"
    /\ \E run \in {standardize_date(last.args[2], last.args[3])} :
          last' = [last EXCEPT !.op = "standardize_date",
                               !.outcome = run.outcome,
                               !.result = run.result]
    /\ UNCHANGED <<env, client>>

\* standardize_date applied to the string it has just returned, on the same
\* platform; the first result is kept as the fifth argument
CallStandardizeDateAgain ==
    /\ last.op = "standardize_date" /\ last.outcome = "ok"
    /\ \E run \in {standardize_date(last.result, last.args[3])} :
          last' = [last EXCEPT !.op = "standardize_date_again",
                               !.args = Append(last.args, last.result),
                               !.outcome = run.outcome,
                               !.result = run.result]
    /\ UNCHANGED <<env, client>>

NextDate ==
    \/ CallStandardizeDate
    \/ CallStandardizeDateAgain

SpecDate == InitDate /\ [][NextDate]_vars

(***************************************************************************)
(* C10: for a valid calendar date written in any of the four shapes,       *)
(* standardize_date returns that date as zero-padded DD-MM-YYYY.           *)
(***************************************************************************)
C10_SameDateZeroPadded ==
    (last.op = "standardize_date"
        /\ ValidDate(last.args[4].d, last.args[4].m, last.args[4].y)) =>
        /\ last.outcome = "ok"
        /\ last.result = Pad2(last.args[4].d) \o <<"-">> \o Pad2(last.args[4].m)
                            \o <<"-">> \o Pad4(last.args[4].y)

(***************************************************************************)
(* C11: standardize_date is idempotent on its own output: for every input  *)
(* in one of the four shapes on which it returned, applying it to the      *)
(* returned string returns that string again.                              *)
(***************************************************************************)
C11_Idempotent ==
    last.op = "standardize_date_again" =>
        /\ last.outcome = "ok"
        /\ last.result = last.args[5]

(***************************************************************************)
(* C12: standardize_date on a string that matches none of the four         *)
(* patterns raises the dedicated error UnrecognizedDateFormat and returns  *)
(* nothing.                                                                *)
(***************************************************************************)
NoPatternMatches(date_str) ==
    /\ ~MatchDayFirst(date_str, "-") /\ ~MatchDayFirst(date_str, "any")
    /\ ~MatchYearFirst(date_str, "-") /\ ~MatchYearFirst(date_str, "any")

C12_UnrecognizedDateFormat ==
    (last.op = "standardize_date" /\ NoPatternMatches(last.args[2])) =>
        /\ last.outcome = "UnrecognizedDateFormat"
        /\ last.result = "None"


(***************************************************************************)
(* SpecWild: wildcard_search applied to a pattern and a candidate list.    *)
(***************************************************************************)
MaxPatternLen == 3

MaxItems == 2

PatternChars == {"A", "a", ".", "*", "?"}

Patterns == UNION {[1..n -> PatternChars] : n \in 0..MaxPatternLen}

Candidates == {<<"A">>, <<"a", "A">>, <<"A", "B">>, <<"B", "A", "b">>}

CandidateLists == UNION {[1..n -> Candidates] : n \in 0..MaxItems}

\* the example of the docstring
ExamplePattern ==
    <<"T", "P", ".", "A", "P", "I", ".", "R", "E", "P", ".", "T", "L", ".", "A", "?", "?">>

ExampleItems ==
    << <<"T", "P", ".", "A", "P", "I", ".", "R", "E", "P", ".", "T", "L", ".", "A", "1", "2">>,
       <<"T", "P", ".", "A", "P", "I", ".", "R", "E", "P", ".", "T", "L", ".", "A", "2", "3">>,
       <<"T", "P", ".", "A", "P", "I", ".", "R", "E", "P", ".", "T", "L", ".", "G", "1">> >>

InitWild ==
    /\ env = PyNone
    /\ client = [c \in Clients |-> NoClient]
    /\ \/ \E pattern \in Patterns, list \in CandidateLists :
             last = Pending("wildcard_search", <<pattern, Items(list)>>)
       \/ last = Pending("wildcard_search", <<ExamplePattern, Items(ExampleItems)>>)

CallWildcardSearch ==
    /\ last.op = "call" /\ last.args[1] = "wildcard_search"
    /\ last' = [last EXCEPT !.op = "wildcard_search",
                            !.result = wildcard_search(last.args[2], last.args[3])]
    /\ UNCHANGED <<env, client>>

NextWild == CallWildcardSearch

SpecWild == InitWild /\ [][NextWild]_vars

(***************************************************************************)
(* C13: wildcard_search with a candidate list returns exactly the          *)
(* candidates, in their order and multiplicity, some substring of which    *)
(* the pattern matches, "*" standing for any run of characters, "?" and    *)
(* "." for any one character and every other character for itself (case   *)
(* included); nothing that is not a candidate is returned.                 *)
(***************************************************************************)
RECURSIVE Glob(_, _)
\* the whole of string is an instance of the wildcard pattern
Glob(pattern, string) ==
    IF pattern = <<>> THEN string = <<>>
    ELSE IF pattern[1] = "*"
         THEN \E k \in 0..Len(string) : Glob(Tail(pattern), SubSeq(string, k + 1, Len(string)))
         ELSE /\ string # <<>>
              /\ pattern[1] \in {"?", ".", string[1]}
              /\ Glob(Tail(pattern), Tail(string))

GlobSomewhere(pattern, string) ==
    \E i \in 1..(Len(string) + 1), j \in 0..Len(string) :
        Glob(pattern, SubSeq(string, i, j))

QueryArg(url, name) ==
    IF QueryEntry(url, name) = 0 THEN PyNone ELSE PyStr(QueryValue(url, name))

C17_ValidationBeforeRequest ==
    /\ last.op = "get_datagroups_metadata" =>
          IF last.args[1] \in {1, 2} /\ last.args[2] = PyNone
          THEN last.outcome = "ValueError" /\ last.reqs = <<>>
          ELSE /\ Len(last.reqs) = 1
               /\ HasSegment(last.reqs[1].url, "datagroups")
               /\ QueryValue(last.reqs[1].url, "mode")
                     = <<CASE last.args[1] = 0 -> "0" [] last.args[1] = 1 -> "1"
                           [] last.args[1] = 2 -> "2">>
               /\ QueryArg(last.reqs[1].url, "code") = last.args[2]
    /\ last.op = "get_series_metadata" =>
          IF last.args[1] = PyNone /\ last.args[2] = PyNone
          THEN last.outcome = "ValueError" /\ last.reqs = <<>>
          ELSE /\ Len(last.reqs) = 1
               /\ HasSegment(last.reqs[1].url, "serieList")
               /\ QueryArg(last.reqs[1].url, "code")
                     = (IF last.args[1] # PyNone THEN last.args[1] ELSE last.args[2])

C17_Witness ==
    /\ last.op = "get_series_metadata"
    /\ last.args = <<PyNone, PyNone>>
    /\ last.outcome = "ValueError"
    /\ last.reqs = <<>>

(***************************************************************************)
(* C18: get_datagroups_metadata raises ValueError whenever the parsed JSON *)
(* body of the response is an empty list or an empty mapping, in every     *)
(* mode; otherwise it returns the parsed JSON unchanged; it never returns  *)
(* an empty result.                                                        *)
(***************************************************************************)
C18_EmptyResponseRaises ==
    (last.op = "get_datagroups_metadata" /\ last.reqs # <<>>) =>
        /\ \A doc \in {"[]", "{}"} :
              (last.response.status_code = 200 /\ last.response.content = <<doc>>) =>
                  last.outcome = "ValueError" /\ last.result = "None"
        /\ (last.response.status_code = 200 /\ last.response.content = <<"{items}">>) =>
              last.outcome = "ok" /\ last.result = "{items}"
        /\ last.outcome = "ok" => last.result \notin {"[]", "{}"}

C18_Witness ==
    /\ last.op = "get_datagroups_metadata"
    /\ last.args[1] = 2
    /\ last.response.content = <<"{}">>
    /\ last.outcome = "ValueError"
    /\ Len(last.reqs) = 1

(***************************************************************************)
(* C20: a failed first access of a memoized property stores nothing: the   *)
(* error of the fetch reaches the caller, the property stays unpopulated   *)
(* and the next access fetches again; a value is stored only by a fetch    *)
(* that returned, so a stored datagroups value is never empty.             *)
(***************************************************************************)
\* what the fetch behind property p comes to on a response: "ok" or an error
FetchOutcomes(p, response) ==
    IF response.status_code = 500 THEN {"ApiKeyError", "IndexError"}
    ELSE IF IsJsonBody(response.content)
         THEN IF p = "datagroups" /\ response.content \in {<<"[]">>, <<"{}">>}
              THEN {"ValueError"} ELSE {"ok"}
    ELSE IF response.status_code = 200 /\ HasErrorTitle(response.content)
         THEN {"InvalidSeriesCode"}
    ELSE {"JSONDecodeError"}

C20_FailedAccessStoresNothing ==
    /\ [](\A c \in Clients : client[c].datagroups \notin {"[]", "{}", "None"})
    /\ [][\A c \in Clients, p \in {"categories", "datagroups"} :
            /\ (last' # last /\ last'.op = p /\ last'.cid = c /\ Memo(client, c, p) = UNSET) =>
                  /\ Len(last'.reqs) = 1
                  /\ last'.outcome \in FetchOutcomes(p, last'.response)
                  /\ IF last'.outcome = "ok"
                     THEN Memo(client', c, p) = last'.response.content[1]
                     ELSE Memo(client', c, p) = UNSET /\ last'.result = "None"
            /\ Memo(client', c, p) # Memo(client, c, p) =>
                  /\ last'.op = p /\ last'.cid = c /\ last'.outcome = "ok"
                  /\ Len(last'.reqs) = 1]_vars

C20_Witness ==
    /\ last.op = "datagroups" /\ last.cid = 1
    /\ last.outcome = "ValueError"
    /\ last.response.content = <<"{}">>
    /\ Len(last.reqs) = 1
    /\ client[1].datagroups = UNSET
    /\ client[1].categories = "{}"

(***************************************************************************)
(* SpecFrame: to_dataframe applied to the records of a response.           *)
(***************************************************************************)
MaxRows == 2

IndexValues ==
    {PyStr(<<"0", "1", "-", "0", "1", "-", "2", "0", "2", "4">>),
     PyStr(<<"2", "-", "2", "0", "2", "4">>),
     PyStr(<<"2", "0", "2", "4", "-", "Q", "1">>)}

CellValues == {PyStr(<<"3", "0", ".", "2", "5">>), PyStr(<<"7">>), PyNone}

\* one record of the "items" list: the date, one series, and the UNIXTIME
\* field or not
Records ==
    { << <<"Tarih", t>>, <<"X", x>> >> : t \in IndexValues, x \in CellValues }
    \cup { << <<"Tarih", t>>, <<"X", x>>, <<"UNIXTIME", PyStr(<<"1704056400">>)>> >> :
              t \in IndexValues, x \in CellValues }

DataLists == UNION {[1..n -> Records] : n \in 0..MaxRows}

InitFrame ==
    /\ env = PyNone
    /\ client = [c \in Clients |-> NoClient]
    /\ \E data \in DataLists : last = Pending("to_dataframe", <<data>>)

CallToDataFrame ==
    /\ last.op = "call" /\ last.args[1] = "to_dataframe"
    /\ \E run \in {to_dataframe(last.args[2])} :
          last' = [last EXCEPT !.op = "to_dataframe",
                               !.outcome = run.outcome,
                               !.result = run.result]
    /\ UNCHANGED <<env, client>>

NextFrame == CallToDataFrame

SpecFrame == InitFrame /\ [][NextFrame]_vars

(***************************************************************************)
(* C19: to_dataframe takes records with or without a UNIXTIME field: the   *)
(* absence of the field is not an error; the field is not among the        *)
(* columns; the first remaining field is the index and every other field a *)
(* column; no row with a value is dropped; the one record                  *)
(* {"Tarih": "01-01-2024", "X": "30.25"} becomes one row of the single     *)
(* column X.                                                               *)
(***************************************************************************)
HasValue(record) ==
    \E i \in 2..Len(record) : record[i][1] # "UNIXTIME" /\ record[i][2] # PyNone

C19_UnixtimeOptional ==
    last.op = "to_dataframe" =>
        LET data == last.args[2]
        IN  /\ last.outcome # "KeyError"
            /\ last.outcome = "ok" =>
                  /\ last.result.columns = <<"X">>
                  /\ Len(last.result.rows) = Cardinality({i \in 1..Len(data) : HasValue(data[i])})
            /\ data = << << <<"Tarih", PyStr(<<"0", "1", "-", "0", "1", "-", "2", "0", "2", "4">>)>>,
                            <<"X", PyStr(<<"3", "0", ".", "2", "5">>)>> >> >> =>
                  /\ last.outcome = "ok"
                  /\ last.result = Table(<<[ok |-> TRUE, d |-> 1, m |-> 1, y |-> 2024]>>,
                                         <<"X">>, << <<Float(3025)>> >>)

(***************************************************************************)
(* SpecRead: one call of read, or of Client.read on an instance built with *)
(* the key K1: every series with every agg, and every combination of       *)
(* start, end and freq on either kind of platform.                         *)
(***************************************************************************)
CodeA1 == <<"T", ".", "A", "1">>

CodeB1 == <<"T", ".", "B", "1">>

ReadSeriesArgs ==
    {PyStr(CodeA1), PyStr(CodeA1 \o <<"-">> \o CodeB1),
     PyList(<<CodeA1>>), PyList(<<CodeA1, CodeB1>>),
     PyStr(<<"T", ".", "A", "*">>), PyStr(<<"T", ".", "?", "1">>),
     PyStr(<<"T", ".", ".", "1">>), PyStr(<<"Z", "*">>)}

Date_2011_06_18 == <<"2", "0", "1", "1", "-", "0", "6", "-", "1", "8">>

Date_17_12_2009 == <<"1", "7", ".", "1", "2", ".", "2", "0", "0", "9">>

StartArgs ==
    {PyNone, PyStr(<<>>), PyStr(Date_2011_06_18), PyStr(Date_17_12_2009),
     PyStr(<<"1", "-", "1", "-", "0", "9", "9", "9">>),
     PyStr(<<"1", "-", "1", "-", "2", "4">>)}

EndArgs == {PyNone, PyStr(Date_17_12_2009), PyStr(<<"2", "0", "2", "4", ".", "2", ".", "2", "9">>)}

AggArgs == {PyNone, PyStr(<<"avg">>), PyList(<< <<"avg">>, <<"max">> >>)}

FreqArgs == {PyNone, PyStr(<<"M">>), PyStr(<<"W-FRI">>), PyStr(<<"H">>), PyInt(5), PyInt(0)}

\* the calls: every series with every agg between two given dates, and the
\* one code with every combination of start, end and freq
ReadCalls ==
    [series : ReadSeriesArgs, start : {PyStr(Date_2011_06_18)},
     end : {PyStr(Date_17_12_2009)}, agg : AggArgs, freq : {PyNone, PyStr(<<"M">>)},
     headers : {NoHeaders}, api_key : {PyStr(<<"K1">>)}, pads_year : {TRUE}]
      \cup
    [series : {PyStr(CodeA1)}, start : StartArgs, end : EndArgs, agg : {PyNone},
     freq : FreqArgs, headers : {NoHeaders}, api_key : {PyStr(<<"K1">>)},
     pads_year : BOOLEAN]

\* the instance that Client("K1") leaves when its validation is answered
\* with a JSON document
InitRead ==
    /\ env = PyNone
    /\ client = [c \in Clients |->
                   IF c = 1 THEN [NoClient EXCEPT !.alive = TRUE, !.api_key = PyStr(<<"K1">>)]
                   ELSE NoClient]
    /\ \E args \in ReadCalls :
          \/ last = Pending("read", <<args, FALSE>>)
          \/ \E metadata \in BOOLEAN : last = Pending("Client.read", <<args, metadata>>)

CallRead(response) ==
    /\ last.op = "call" /\ last.args[1] = "read"
    /\ \E run \in {read(last.args[2], env, response)} :
          last' = [last EXCEPT !.op = "read", !.outcome = run.outcome,
                               !.result = run.result, !.reqs = run.reqs]
    /\ UNCHANGED <<env, client>>

\* Client.read; the outcome of the data read it starts with is kept as the
\* fourth argument
CallClientRead(response) ==
    /\ last.op = "call" /\ last.args[1] = "Client.read"
    /\ \E run \in Client_read(client[1], last.args[2], last.args[3], env, response) :
          last' = [last EXCEPT !.op = "Client.read", !.cid = 1,
                               !.args = Append(@, read([last.args[2] EXCEPT
                                                          !.api_key = client[1].api_key],
                                                       env, response).outcome),
                               !.outcome = run.outcome,
                               !.result = run.result, !.reqs = run.reqs]
    /\ UNCHANGED <<env, client>>

NextRead ==
    \/ \E r \in Responses : CallRead(r)
    \/ \E r \in Responses : CallClientRead(r)

SpecRead == InitRead /\ [][NextRead]_vars

\* the codes a series argument asks for
IsWildcard(s) ==
    \E i \in 1..Len(s) : s[i] \in {"*", "?"} \/ (i < Len(s) /\ s[i] = "." /\ s[i + 1] = ".")

RequestedCodes(series) ==
    IF series.t = "list" THEN series.s
    ELSE IF IsWildcard(series.s)
         THEN SelectSeq(PackageSeries, LAMBDA code : GlobSomewhere(series.s, code))
    ELSE split(series.s, "-")

\* value is the elements of list with "-" between them
IsJoined(value, list) ==
    IF list = <<>> THEN value = <<>> ELSE split(value, "-") = list

(***************************************************************************)
(* C14: Client.read with metadata=True sends, after the data read, one     *)
(* series-metadata request per series code asked for and returns the table *)
(* with attrs mapping each code to its metadata, whether the series        *)
(* argument is a code, a list of codes or a wildcard pattern; with         *)
(* metadata=False the data read is its only request.                       *)
(***************************************************************************)
C14_MetadataPerSeries ==
    (last.op = "Client.read" /\ last.args[4] = "ok") =>
        LET codes == RequestedCodes(last.args[2].series)
        IN  IF ~last.args[3]
            THEN Len(last.reqs) = 1 /\ last.outcome = "ok" /\ last.result.attrs = <<>>
            ELSE /\ codes # <<>> => Len(last.reqs) >= 2
                 /\ last.outcome = "ok" =>
                       /\ Len(last.reqs) = 1 + Len(codes)
                       /\ \A i \in 1..Len(codes) :
                             /\ HasSegment(last.reqs[i + 1].url, "serieList")
                             /\ QueryArg(last.reqs[i + 1].url, "code") = PyStr(codes[i])
                       /\ {kv[1] : kv \in {last.result.attrs[i] : i \in 1..Len(last.result.attrs)}}
                             = {codes[i] : i \in 1..Len(codes)}

(***************************************************************************)
(* C15: the series that read sends is, for a list, its elements joined     *)
(* with "-" in order; for a string holding "*", "?" or "..", the codes     *)
(* wildcard_search returns for it, joined with "-" in order; for any other *)
(* string, the string; agg is sent joined with "-" when a list, unchanged  *)
(* when a string.                                                          *)
(***************************************************************************)
C15_SeriesAndAggSent ==
    (last.op \in {"read", "Client.read"} /\ last.reqs # <<>>) =>
        LET args == last.args[2]
            url == last.reqs[1].url
            sent == QueryArg(url, "series")
        IN  /\ sent.t = "str"
            /\ IF args.series.t = "list" \/ IsWildcard(args.series.s)
               THEN IsJoined(sent.s, RequestedCodes(args.series))
               ELSE sent = args.series
            /\ args.agg.t = "list" =>
                  QueryArg(url, "aggregationTypes").t = "str"
                    /\ IsJoined(QueryArg(url, "aggregationTypes").s, args.agg.s)
            /\ args.agg.t # "list" => QueryArg(url, "aggregationTypes") = args.agg

C15_Witness ==
    /\ last.op = "read"
    /\ last.args[2].series = PyStr(<<"T", ".", ".", "1">>)
    /\ last.args[2].agg = PyList(<< <<"avg">>, <<"max">> >>)
    /\ last.outcome = "ok"
    /\ QueryValue(last.reqs[1].url, "series") = CodeA1 \o <<"-">> \o CodeB1
    /\ QueryValue(last.reqs[1].url, "aggregationTypes") = <<"avg", "-", "max">>

(***************************************************************************)
(* C16: read sends a start or end date given in one of the four shapes as  *)
(* standardize_date returns it, an absent start as 01-01-1970 and an       *)
(* absent end as today's date; a frequency string as its code in           *)
(* FREQ_MAPPING and an integer frequency unchanged; it sends the request   *)
(* whether or not start precedes end.                                      *)
(***************************************************************************)
\* a date argument that standardize_date accepts on the platform
DateGiven(date, pads_year) ==
    Truthy(date) /\ standardize_date(date.s, pads_year).outcome = "ok"

FreqCode(f) ==
    CASE f = "D" -> <<"1">> [] f = "B" -> <<"2">> [] f \in {"W-FRI", "W"} -> <<"3">>
      [] f = "M" -> <<"5">> [] f = "Q" -> <<"6">> [] f = "2Q" -> <<"7">>
      [] f \in {"A", "Y"} -> <<"8">>

=============================================================================
